---- MODULE Spec2Model ----
(***************************************************************************)
(* A model of app.py: the text normalizer, the PDF and e-mail extractors,  *)
(* the comparison engine (difflib.SequenceMatcher over case-folded text),  *)
(* the semantic reviewer and the Submit handler that runs them.            *)
(*                                                                         *)
(* A Python str is a sequence of one-character strings.  Indices named     *)
(* alo, ahi, i1, i2, ... are Python's (0-based, half-open); a[i + 1] is    *)
(* Python's a[i].                                                          *)
(***************************************************************************)
EXTENDS Integers, Sequences, FiniteSets, TLC

VARIABLES
    pc,                 \* where the run is: "start", "judge", "done", "raised", "warned"
    raw_text,           \* clean_text: the string handed to the first call
    cleaned,            \* clean_text: the results of the successive calls
    pdf_file,           \* the uploaded PDF (its pages), or no upload
    eml_file,           \* the uploaded e-mail (its MIME walk), or no upload
    openai_key,         \* os.getenv("OPENAI_API_KEY"): TRUE when set
    pdf_text, pdf_comments, pdf_urls,
    eml_text, eml_images_text, eml_urls,
    combined_eml_text,
    match_score,
    differences,
    comment_results,
    semantic_result,
    rendered            \* the widgets written to the page so far, in order

vars == <<pc, raw_text, cleaned, pdf_file, eml_file, openai_key,
          pdf_text, pdf_comments, pdf_urls, eml_text, eml_images_text, eml_urls,
          combined_eml_text, match_score, differences, comment_results,
          semantic_result, rendered>>

-----------------------------------------------------------------------------
(* Bounds of the model *)

CleanPasses == 3
MaxFragments == 4
MaxTextLen == 3
MaxUrls == 2
MaxComments == 2
MaxEmlLen == 7
MaxPages == 2
MaxAnnots == 2
MaxParts == 3
MaxPipePages == 2
MaxPipeParts == 2

-----------------------------------------------------------------------------
(* Strings *)

Range(s) == {s[k] : k \in 1..Len(s)}

Min(x, y) == IF x <= y THEN x ELSE y

\* s[lo:hi] of Python
Slice(s, lo, hi) == SubSeq(s, lo + 1, hi)

\* what \s matches and str.strip() strips, among the characters of the model
Whitespace == {" ", "\n", "\t"}

\* str.lower() on one character
LowerChar(c) == CASE c = "A" -> "a" [] c = "B" -> "b" [] OTHER -> c

\* str.lower()
Lower(s) == [k \in 1..Len(s) |-> LowerChar(s[k])]

\* whether p occurs in s at position i (1-based)
HasPrefix(s, i, p) ==
    /\ i + Len(p) - 1 <= Len(s)
    /\ \A k \in 1..Len(p) : s[i + k - 1] = p[k]

RECURSIVE Concat(_)
\* ''.join(list)
Concat(list) == IF list = <<>> THEN <<>> ELSE Head(list) \o Concat(Tail(list))

-----------------------------------------------------------------------------
(* clean_text and the regular expressions it uses *)

\* r'<[^>]+>' at position i: the position after the match, 0 when none
TagEnd(s, i) ==
    IF /\ s[i] = "<"
       /\ i + 1 <= Len(s)
       /\ s[i + 1] # ">"
       /\ \E j \in (i + 2)..Len(s) : s[j] = ">"
    THEN (CHOOSE j \in (i + 2)..Len(s) :
              s[j] = ">" /\ \A k \in (i + 2)..(j - 1) : s[k] # ">") + 1
    ELSE 0

RECURSIVE SubTags(_, _)
\* re.sub(r'<[^>]+>', '', s), scanning from position i
SubTags(s, i) ==
    IF i > Len(s) THEN <<>>
    ELSE IF TagEnd(s, i) # 0 THEN SubTags(s, TagEnd(s, i))
    ELSE <<s[i]>> \o SubTags(s, i + 1)

HttpScheme == <<"h", "t", "t", "p", ":", "/", "/">>
HttpsScheme == <<"h", "t", "t", "p", "s", ":", "/", "/">>

\* r'https?://\S+' at position i: the position after the match, 0 when none
UrlEnd(s, i) ==
    LET body == IF HasPrefix(s, i, HttpsScheme) THEN i + Len(HttpsScheme)
                ELSE IF HasPrefix(s, i, HttpScheme) THEN i + Len(HttpScheme)
                ELSE 0
    IN  IF body # 0 /\ body <= Len(s) /\ s[body] \notin Whitespace
        THEN IF \E j \in body..Len(s) : s[j] \in Whitespace
             THEN CHOOSE j \in body..Len(s) :
                      s[j] \in Whitespace /\ \A k \in body..(j - 1) : s[k] \notin Whitespace
             ELSE Len(s) + 1
        ELSE 0

RECURSIVE SubUrls(_, _)
\* re.sub(r'https?://\S+', '', s), scanning from position i
SubUrls(s, i) ==
    IF i > Len(s) THEN <<>>
    ELSE IF UrlEnd(s, i) # 0 THEN SubUrls(s, UrlEnd(s, i))
    ELSE <<s[i]>> \o SubUrls(s, i + 1)

RECURSIVE FindUrls(_, _)
\* re.findall(r'https?://\S+', s), scanning from position i
FindUrls(s, i) ==
    IF i > Len(s) THEN <<>>
    ELSE IF UrlEnd(s, i) # 0
         THEN <<SubSeq(s, i, UrlEnd(s, i) - 1)>> \o FindUrls(s, UrlEnd(s, i))
    ELSE FindUrls(s, i + 1)

RECURSIVE SubSpaces(_, _)
\* re.sub(r'\s+', ' ', s), scanning from position i
SubSpaces(s, i) ==
    IF i > Len(s) THEN <<>>
    ELSE IF s[i] \in Whitespace
         THEN IF i > 1 /\ s[i - 1] \in Whitespace
              THEN SubSpaces(s, i + 1)
              ELSE <<" ">> \o SubSpaces(s, i + 1)
    ELSE <<s[i]>> \o SubSpaces(s, i + 1)

\* str.strip()
Strip(s) ==
    IF \A k \in 1..Len(s) : s[k] \in Whitespace THEN <<>>
    ELSE LET first == CHOOSE k \in 1..Len(s) :
                          s[k] \notin Whitespace /\ \A m \in 1..(k - 1) : s[m] \in Whitespace
             last == CHOOSE k \in 1..Len(s) :
                         s[k] \notin Whitespace /\ \A m \in (k + 1)..Len(s) : s[m] \in Whitespace
         IN  SubSeq(s, first, last)

\* clean_text with the two removals swapped: URLs first, then tags
clean_text_urls_first(text) ==
    Strip(SubSpaces(SubTags(SubUrls(text, 1), 1), 1))

clean_text(text) ==
    Strip(SubSpaces(SubUrls(SubTags(text, 1), 1), 1))

-----------------------------------------------------------------------------
(* difflib.SequenceMatcher(None, a, b): isjunk is None and autojunk is on *)

\* the length from which SequenceMatcher drops "popular" elements of b
AutoJunkMinLen == 200

Count(s, c) == Cardinality({k \in 1..Len(s) : s[k] = c})

\* __chain_b: the elements of b that occur more than 1% + 1 times, when b is long
Popular(b) ==
    IF Len(b) >= AutoJunkMinLen
    THEN {c \in Range(b) : Count(b, c) > (Len(b) \div 100) + 1}
    ELSE {}

\* __chain_b: the keys of b2j (no element is junk, isjunk being None)
B2JKeys(b) == Range(b) \ Popular(b)

RECURSIVE RunLen(_, _, _, _, _, _, _)
\* find_longest_match: newj2len[j] while a[i] is looked at, the length of the
\* longest match of b2j elements that ends with a[i] and b[j] (0: none)
RunLen(a, b, keys, alo, blo, i, j) ==
    IF i < alo \/ j < blo THEN 0
    ELSE IF a[i + 1] = b[j + 1] /\ b[j + 1] \in keys
         THEN RunLen(a, b, keys, alo, blo, i - 1, j - 1) + 1
    ELSE 0

\* find_longest_match: the first while loop (no element is junk): the match m
\* grows backwards for as long as the elements before it are equal
ExtendBack(a, b, alo, blo, m) ==
    LET room == Min(m[1] - alo, m[2] - blo)
        equal(n) == \A d \in 1..n : a[m[1] - d + 1] = b[m[2] - d + 1]
        n == CHOOSE n \in 0..room : equal(n) /\ (n < room => ~equal(n + 1))
    IN  <<m[1] - n, m[2] - n, m[3] + n>>

\* find_longest_match: the second while loop (no element is junk): the match m
\* grows forwards for as long as the elements after it are equal
ExtendForward(a, b, ahi, bhi, m) ==
    LET room == Min(ahi - (m[1] + m[3]), bhi - (m[2] + m[3]))
        equal(n) == \A d \in 1..n : a[m[1] + m[3] + d] = b[m[2] + m[3] + d]
        n == CHOOSE n \in 0..room : equal(n) /\ (n < room => ~equal(n + 1))
    IN  <<m[1], m[2], m[3] + n>>

\* find_longest_match(alo, ahi, blo, bhi): <<besti, bestj, bestsize>>
find_longest_match(a, b, alo, ahi, blo, bhi) ==
    LET keys == B2JKeys(b)
        ends == {ij \in (alo..(ahi - 1)) \X (blo..(bhi - 1)) :
                    a[ij[1] + 1] = b[ij[2] + 1] /\ b[ij[2] + 1] \in keys}
        len(ij) == RunLen(a, b, keys, alo, blo, ij[1], ij[2])
        lens == {len(ij) : ij \in ends}
        bestsize == CHOOSE k \in lens : \A m \in lens : m <= k
        \* k > bestsize is strict: of the (i, j) that reach the largest k, the first
        \* in loop order (i ascending, then j ascending) is kept
        longest == {ij \in ends : len(ij) = bestsize}
        best == CHOOSE ij \in longest :
                    \A other \in longest :
                        \/ other[1] > ij[1]
                        \/ other[1] = ij[1] /\ other[2] >= ij[2]
        junkfree == IF ends = {} THEN <<alo, blo, 0>>
                    ELSE <<best[1] - bestsize + 1, best[2] - bestsize + 1, bestsize>>
    IN  ExtendForward(a, b, ahi, bhi, ExtendBack(a, b, alo, blo, junkfree))

RECURSIVE MatchQueue(_, _, _, _, _, _)
\* get_matching_blocks: the blocks the queue loop finds in a[alo:ahi], b[blo:bhi],
\* as matching_blocks.sort() leaves them
MatchQueue(a, b, alo, ahi, blo, bhi) ==
    LET x == find_longest_match(a, b, alo, ahi, blo, bhi)
        i == x[1]
        j == x[2]
        k == x[3]
    IN  IF k = 0 THEN <<>>
        ELSE (IF alo < i /\ blo < j THEN MatchQueue(a, b, alo, i, blo, j) ELSE <<>>)
             \o <<x>>
             \o (IF i + k < ahi /\ j + k < bhi
                 THEN MatchQueue(a, b, i + k, ahi, j + k, bhi) ELSE <<>>)

RECURSIVE CollapseAdjacent(_, _)
\* get_matching_blocks: adjacent equal blocks collapsed into the pending block cur
CollapseAdjacent(blocks, cur) ==
    IF blocks = <<>> THEN (IF cur[3] # 0 THEN <<cur>> ELSE <<>>)
    ELSE LET nxt == Head(blocks)
         IN  IF cur[1] + cur[3] = nxt[1] /\ cur[2] + cur[3] = nxt[2]
             THEN CollapseAdjacent(Tail(blocks), <<cur[1], cur[2], cur[3] + nxt[3]>>)
             ELSE (IF cur[3] # 0 THEN <<cur>> ELSE <<>>)
                  \o CollapseAdjacent(Tail(blocks), nxt)

\* get_matching_blocks(): the blocks, then the sentinel (la, lb, 0)
get_matching_blocks(a, b) ==
    CollapseAdjacent(MatchQueue(a, b, 0, Len(a), 0, Len(b)), <<0, 0, 0>>)
        \o <<<<Len(a), Len(b), 0>>>>

RECURSIVE SumSizes(_)
SumSizes(blocks) ==
    IF blocks = <<>> THEN 0 ELSE Head(blocks)[3] + SumSizes(Tail(blocks))

\* A float that is a quotient of two integers, kept as the quotient
Rat(n, d) == [num |-> n, den |-> d]
RatEq(x, y) == x.num * y.den = y.num * x.den
RatGt(x, y) == x.num * y.den > y.num * x.den

\* _calculate_ratio(matches, length)
calculate_ratio(matches, length) ==
    IF length # 0 THEN Rat(2 * matches, length) ELSE Rat(1, 1)

\* SequenceMatcher(None, a, b).ratio()
ratio(a, b) == calculate_ratio(SumSizes(get_matching_blocks(a, b)), Len(a) + Len(b))

RECURSIVE OpcodesFrom(_, _, _)
\* get_opcodes(): the loop over the matching blocks, from (i, j)
OpcodesFrom(blocks, i, j) ==
    IF blocks = <<>> THEN <<>>
    ELSE LET ai == Head(blocks)[1]
             bj == Head(blocks)[2]
             size == Head(blocks)[3]
             tag == IF i < ai /\ j < bj THEN "replace"
                    ELSE IF i < ai THEN "delete"
                    ELSE IF j < bj THEN "insert"
                    ELSE ""
         IN  (IF tag # "" THEN <<<<tag, i, ai, j, bj>>>> ELSE <<>>)
             \o (IF size # 0 THEN <<<<"equal", ai, ai + size, bj, bj + size>>>> ELSE <<>>)
             \o OpcodesFrom(Tail(blocks), ai + size, bj + size)

\* SequenceMatcher(None, a, b).get_opcodes()
get_opcodes(a, b) == OpcodesFrom(get_matching_blocks(a, b), 0, 0)

-----------------------------------------------------------------------------
(* extract_pdf_text_comments *)

\* A PDF is its pages, in document order.  A page is [text, annots]: what
\* page.get_text() returns, and the annot.info dicts of the chain that starts at
\* page.first_annot and follows annot.next.  An info dict is a record: it has a
\* field "content" or it has none.

\* annot.info.get("content"), as the if statement reads it
HasContent(info) == "content" \in DOMAIN info /\ info["content"] # <<>>

RECURSIVE PageComments(_)
\* the while loop over one page's annotations
PageComments(annots) ==
    IF annots = <<>> THEN <<>>
    ELSE (IF HasContent(Head(annots)) THEN <<Strip(Head(annots)["content"])>> ELSE <<>>)
         \o PageComments(Tail(annots))

RECURSIVE PdfPages(_, _)
\* the for loop over the pages, from the accumulators acc
PdfPages(pages, acc) ==
    IF pages = <<>> THEN acc
    ELSE LET page == Head(pages)
         IN  PdfPages(Tail(pages),
                      [full_text |-> acc.full_text \o clean_text(page.text),
                       urls      |-> acc.urls \o FindUrls(page.text, 1),
                       comments  |-> acc.comments \o PageComments(page.annots)])

extract_pdf_text_comments(pdf) ==
    PdfPages(pdf.pages, [full_text |-> <<>>, urls |-> <<>>, comments |-> <<>>])

-----------------------------------------------------------------------------
(* extract_eml_content *)

\* An e-mail is the parts msg.walk() yields, in order.  A part is
\* [maintype, subtype, content, ocr]: its content type, what get_content() returns
\* (text parts), and what Image.open and pytesseract.image_to_string make of its
\* payload (image parts): [ok |-> TRUE, text |-> t], or [ok |-> FALSE] when either
\* raises.

IsTextPart(part) == part.maintype = "text" /\ part.subtype \in {"plain", "html"}
IsImagePart(part) == part.maintype = "image"
OcrFails(part) == IsImagePart(part) /\ ~part.ocr.ok

\* what the caller sees when extract_eml_content raises: no value is returned
EmlRaised == [raised |-> TRUE, text_content |-> <<>>, images_text |-> <<>>, urls |-> <<>>]

RECURSIVE EmlParts(_, _)
\* the for loop over msg.walk(), from the accumulators acc; nothing catches what
\* Image.open or image_to_string raises
EmlParts(parts, acc) ==
    IF parts = <<>> THEN acc
    ELSE LET part == Head(parts)
             afterText ==
                 IF IsTextPart(part)
                 THEN [acc EXCEPT !.urls = @ \o FindUrls(part.content, 1),
                                  !.text_content = @ \o clean_text(part.content)]
                 ELSE acc
         IN  IF IsImagePart(part)
             THEN IF part.ocr.ok
                  THEN EmlParts(Tail(parts),
                                [afterText EXCEPT !.images_text = @ \o clean_text(part.ocr.text)])
                  ELSE EmlRaised
             ELSE EmlParts(Tail(parts), afterText)

extract_eml_content(eml) ==
    EmlParts(eml.parts,
             [raised |-> FALSE, text_content |-> <<>>, images_text |-> <<>>, urls |-> <<>>])

-----------------------------------------------------------------------------
(* structured_differences and compare_comments_to_eml *)

TextEntry(extracted) ==
    [Type |-> "Text", Source |-> "PDF", Extracted |-> extracted,
     Status |-> "Not Found in Email"]

UrlEntry(url) ==
    [Type |-> "URL", Source |-> "PDF", Extracted |-> url, Status |-> "Missing in Email"]

RECURSIVE TextDiffsAll(_, _)
\* the loop over the opcodes without its test: an entry for every opcode
TextDiffsAll(opcodes, pdf_text_) ==
    IF opcodes = <<>> THEN <<>>
    ELSE <<TextEntry(Slice(pdf_text_, Head(opcodes)[2], Head(opcodes)[3]))>>
         \o TextDiffsAll(Tail(opcodes), pdf_text_)

RECURSIVE TextDiffs(_, _)
\* the loop over the opcodes: an entry for each that is not 'equal'
TextDiffs(opcodes, pdf_text_) ==
    IF opcodes = <<>> THEN <<>>
    ELSE (IF Head(opcodes)[1] # "equal"
          THEN <<TextEntry(Slice(pdf_text_, Head(opcodes)[2], Head(opcodes)[3]))>>
          ELSE <<>>)
         \o TextDiffs(Tail(opcodes), pdf_text_)

\* url not in eml_urls, were a trailing slash ignored
UrlMissingModuloSlash(url, eml_urls_) ==
    LET bare(u) == IF u # <<>> /\ u[Len(u)] = "/" THEN SubSeq(u, 1, Len(u) - 1) ELSE u
    IN  \A k \in 1..Len(eml_urls_) : bare(eml_urls_[k]) # bare(url)

\* url not in eml_urls: list membership, by equality of strings
UrlMissing(url, eml_urls_) ==
    \A k \in 1..Len(eml_urls_) : eml_urls_[k] # url

RECURSIVE UrlDiffs(_, _)
\* the loop over pdf_urls
UrlDiffs(pdf_urls_, eml_urls_) ==
    IF pdf_urls_ = <<>> THEN <<>>
    ELSE (IF UrlMissing(Head(pdf_urls_), eml_urls_) THEN <<UrlEntry(Head(pdf_urls_))>> ELSE <<>>)
         \o UrlDiffs(Tail(pdf_urls_), eml_urls_)

\* structured_differences taking the spans from the lowercased text it aligned
structured_differences_lowered(pdf_text_, eml_text_, pdf_urls_, eml_urls_) ==
    TextDiffs(get_opcodes(Lower(pdf_text_), Lower(eml_text_)), Lower(pdf_text_))
        \o UrlDiffs(pdf_urls_, eml_urls_)

structured_differences(pdf_text_, eml_text_, pdf_urls_, eml_urls_) ==
    TextDiffs(get_opcodes(Lower(pdf_text_), Lower(eml_text_)), pdf_text_)
        \o UrlDiffs(pdf_urls_, eml_urls_)

\* the literal 0.6
ImplementedThreshold == Rat(6, 10)

\* match_ratio >= 0.6
ImplementedAtLeast(match_ratio) == ~RatGt(ImplementedThreshold, match_ratio)

\* match_ratio > 0.6
Implemented(match_ratio) == RatGt(match_ratio, ImplementedThreshold)

RECURSIVE compare_comments_to_eml(_, _)
\* the loop over the comments: (comment, implemented, match_ratio) for each
compare_comments_to_eml(comments, eml_text_) ==
    IF comments = <<>> THEN <<>>
    ELSE LET comment == Head(comments)
             match_ratio == ratio(Lower(comment), Lower(eml_text_))
         IN  <<<<comment, Implemented(match_ratio), match_ratio>>>>
             \o compare_comments_to_eml(Tail(comments), eml_text_)

-----------------------------------------------------------------------------
(* semantic_similarity *)

\* The prompt is the argument of the call; what the call does with it is not the
\* program's, so the reply is any of the outcomes below whatever the prompt.
\* What openai.ChatCompletion.create does, seen from the try block:
\*   [kind |-> "response", choices |-> c]  it returns a response; c is the list of
\*       the contents of response['choices'][k]['message'], and subscripting
\*       [0] raises IndexError when the list is empty;
\*   [kind |-> "raise", error |-> e]       it raises e (an Exception).
\* the body with no except clause: what the try block raises goes to the caller
semantic_similarity_uncaught(reply) ==
    IF reply.kind = "response" /\ reply.choices # <<>>
    THEN [raised |-> FALSE, value |-> [type |-> "str", text |-> <<reply.choices[1]>>]]
    ELSE [raised |-> TRUE, value |-> [type |-> "none", text |-> <<>>]]

\* the try block and its except Exception clause, given what the call did
semantic_similarity(reply) ==
    IF reply.kind = "response" /\ reply.choices # <<>>
    THEN [raised |-> FALSE, value |-> [type |-> "str", text |-> <<reply.choices[1]>>]]
    ELSE [raised |-> FALSE,
          value  |-> [type |-> "str",
                      text |-> <<"OpenAI API Error: ",
                                 IF reply.kind = "raise" THEN reply.error ELSE "IndexError">>]]

-----------------------------------------------------------------------------
(* The Submit handler *)

\* an upload slot: st.file_uploader returns None until a file is chosen
NoPdf == [present |-> FALSE, pages |-> <<>>]
NoEml == [present |-> FALSE, parts |-> <<>>]
Pdf(pages) == [present |-> TRUE, pages |-> pages]
Eml(parts) == [present |-> TRUE, parts |-> parts]

NoScore == Rat(0, 1)
NoSemanticResult == [type |-> "none", text |-> <<>>]

\* eml_text + eml_images_text, the separator left out
CombineNoSeparator(text, images_text) == text \o images_text

\* eml_text + " " + eml_images_text
Combine(text, images_text) == text \o <<" ">> \o images_text

\* match_ratio * 100
MatchScore(pdf_text_, eml_text_) ==
    LET match_ratio == ratio(Lower(pdf_text_), Lower(eml_text_))
    IN  Rat(match_ratio.num * 100, match_ratio.den)

\* one st.* call: the widget, its label or fixed text, and the number of the
\* comment it is about (0: none).  The data it shows is the variable it is given.
Widget(kind, label, number) == [widget |-> kind, label |-> label, number |-> number]

RECURSIVE NotImplementedErrors(_, _)
\* the first loop over comment_results, from index idx
NotImplementedErrors(results, idx) ==
    IF results = <<>> THEN <<>>
    ELSE (IF ~Head(results)[2]
          THEN <<Widget("error", "not implemented", idx + 1)>>
          ELSE <<>>)
         \o NotImplementedErrors(Tail(results), idx + 1)

RECURSIVE DetailedChecks(_, _)
\* the second loop over comment_results, from index idx
DetailedChecks(results, idx) ==
    IF results = <<>> THEN <<>>
    ELSE <<Widget("write",
                  IF Head(results)[2] THEN "Implemented" ELSE "Not Implemented", idx + 1),
           Widget("divider", "", 0)>>
         \o DetailedChecks(Tail(results), idx + 1)

\* what the handler writes before it reaches the semantic reviewer
PageHead ==
    <<Widget("header", "Comparison Results", 0),
      Widget("metric", "Basic Text Match Score (%)", 0)>>

\* what the handler writes once semantic_similarity has returned
PageSemantic ==
    <<Widget("text_area", "GPT-4 Comparison Result", 0)>>

\* what the handler writes after the semantic reviewer's block
PageRest(diffs, results) ==
    <<Widget("subheader", "Structured Differences", 0)>>
    \o (IF diffs # <<>> THEN <<Widget("dataframe", "", 0)>>
        ELSE <<Widget("success", "No major content or URL differences found!", 0)>>)
    \o <<Widget("subheader", "Comments Not Implemented", 0)>>
    \o NotImplementedErrors(results, 0)
    \o <<Widget("subheader", "Detailed Comment Check", 0)>>
    \o DetailedChecks(results, 0)
    \o <<Widget("header", "PDF Text Content", 0),
         Widget("text_area", "Extracted PDF Text", 0),
         Widget("header", "Email Text Content", 0),
         Widget("text_area", "Extracted Email Text", 0)>>

\* The button is clicked: the handler runs to its end, to the exception that ends
\* it, or to the call of the semantic reviewer, where it waits for the reply.
Submit ==
    /\ pc = "start"
    /\ UNCHANGED <<raw_text, cleaned, pdf_file, eml_file, openai_key>>
    /\ IF ~(eml_file.present /\ pdf_file.present)
       THEN /\ pc' = "warned"
            /\ rendered' = <<Widget("warning",
                               "Please upload both .eml and PDF files to proceed.", 0)>>
            /\ UNCHANGED <<pdf_text, pdf_comments, pdf_urls, eml_text, eml_images_text,
                           eml_urls, combined_eml_text, match_score, differences,
                           comment_results, semantic_result>>
       ELSE LET pdf == extract_pdf_text_comments(pdf_file)
                eml == extract_eml_content(eml_file)
                combined == Combine(eml.text_content, eml.images_text)
                score == MatchScore(pdf.full_text, combined)
                diffs == structured_differences(pdf.full_text, combined, pdf.urls, eml.urls)
                results == compare_comments_to_eml(pdf.comments, combined)
            IN  /\ pdf_text' = pdf.full_text
                /\ pdf_comments' = pdf.comments
                /\ pdf_urls' = pdf.urls
                /\ IF eml.raised
                   THEN /\ pc' = "raised:extract_eml_content"
                        /\ UNCHANGED <<eml_text, eml_images_text, eml_urls,
                                       combined_eml_text, match_score, differences,
                                       comment_results, semantic_result, rendered>>
                   ELSE /\ eml_text' = eml.text_content
                        /\ eml_images_text' = eml.images_text
                        /\ eml_urls' = eml.urls
                        /\ combined_eml_text' = combined
                        /\ match_score' = score
                        /\ differences' = diffs
                        /\ comment_results' = results
                        /\ IF openai_key
                           THEN /\ pc' = "judge"
                                /\ semantic_result' = [type |-> "pending", text |-> <<>>]
                                /\ rendered' =
                                       PageHead
                                       \o <<Widget("subheader",
                                              "Semantic Match (via OpenAI GPT-4) - Using Env Key",
                                              0)>>
                           ELSE /\ pc' = "done"
                                /\ UNCHANGED semantic_result
                                /\ rendered' = PageHead \o PageRest(diffs, results)

\* who answers openai.ChatCompletion.create, and how
JudgeErrors == {"network", "auth", "quota"}
JudgeContents == {"Score: 80. No major differences."}
JudgeReplies ==
    [kind : {"raise"}, error : JudgeErrors, choices : {<<>>}]
    \cup [kind : {"response"}, error : {""}, choices : {<<>>} \cup {<<c>> : c \in JudgeContents}]

\* openai.ChatCompletion.create comes back (a response, or an exception) and the
\* handler runs on to its end
JudgeReturns ==
    /\ pc = "judge"
    /\ \E reply \in JudgeReplies :
          LET result == semantic_similarity(reply)
          IN  IF result.raised
              THEN /\ pc' = "raised:semantic_similarity"
                   /\ UNCHANGED <<semantic_result, rendered>>
              ELSE /\ pc' = "done"
                   /\ semantic_result' = result.value
                   /\ rendered' = rendered \o PageSemantic
                          \o PageRest(differences, comment_results)
    /\ UNCHANGED <<raw_text, cleaned, pdf_file, eml_file, openai_key,
                   pdf_text, pdf_comments, pdf_urls, eml_text, eml_images_text, eml_urls,
                   combined_eml_text, match_score, differences, comment_results>>

-----------------------------------------------------------------------------
(* The functions on their own: each is applied once to its arguments *)

\* clean_text is applied to its own result
CleanText ==
    /\ pc = "start"
    /\ Len(cleaned) < CleanPasses
    /\ cleaned' = Append(cleaned,
                         clean_text(IF cleaned = <<>> THEN raw_text
                                    ELSE cleaned[Len(cleaned)]))
    /\ UNCHANGED <<pc, raw_text, pdf_file, eml_file, openai_key,
                   pdf_text, pdf_comments, pdf_urls, eml_text, eml_images_text, eml_urls,
                   combined_eml_text, match_score, differences, comment_results,
                   semantic_result, rendered>>

\* line 120 alone
ExtractPdf ==
    /\ pc = "start"
    /\ LET pdf == extract_pdf_text_comments(pdf_file)
       IN  /\ pdf_text' = pdf.full_text
           /\ pdf_comments' = pdf.comments
           /\ pdf_urls' = pdf.urls
    /\ pc' = "done"
    /\ UNCHANGED <<raw_text, cleaned, pdf_file, eml_file, openai_key,
                   eml_text, eml_images_text, eml_urls,
                   combined_eml_text, match_score, differences, comment_results,
                   semantic_result, rendered>>

\* line 121 alone
ExtractEml ==
    /\ pc = "start"
    /\ LET eml == extract_eml_content(eml_file)
       IN  IF eml.raised
           THEN /\ pc' = "raised:extract_eml_content"
                /\ UNCHANGED <<eml_text, eml_images_text, eml_urls>>
           ELSE /\ pc' = "done"
                /\ eml_text' = eml.text_content
                /\ eml_images_text' = eml.images_text
                /\ eml_urls' = eml.urls
    /\ UNCHANGED <<raw_text, cleaned, pdf_file, eml_file, openai_key,
                   pdf_text, pdf_comments, pdf_urls,
                   combined_eml_text, match_score, differences, comment_results,
                   semantic_result, rendered>>

\* lines 125 to 129 alone: the comparison engine on given texts, URLs and comments
Compare ==
    /\ pc = "start"
    /\ match_score' = MatchScore(pdf_text, combined_eml_text)
    /\ differences' = structured_differences(pdf_text, combined_eml_text, pdf_urls, eml_urls)
    /\ comment_results' = compare_comments_to_eml(pdf_comments, combined_eml_text)
    /\ pc' = "done"
    /\ UNCHANGED <<raw_text, cleaned, pdf_file, eml_file, openai_key,
                   pdf_text, pdf_comments, pdf_urls, eml_text, eml_images_text, eml_urls,
                   combined_eml_text, semantic_result, rendered>>

-----------------------------------------------------------------------------
(* Inputs *)

SeqsUpTo(S, n) == UNION {[1..k -> S] : k \in 0..n}

Rep(c, n) == [k \in 1..n |-> c]

UrlX == HttpScheme \o <<"x">>
UrlXSlash == UrlX \o <<"/">>
UrlY == HttpsScheme \o <<"y">>

\* clean_text: strings made of at most MaxFragments of these pieces
CleanFragments ==
    {<<"<">>, <<">">>, <<" ">>, <<"\n">>, <<"a">>, <<"<", "a", ">">>,
     HttpScheme, <<"h", "t">>, <<"t", "p", "s", ":", "/", "/">>}
CleanInputs == {Concat(f) : f \in SeqsUpTo(CleanFragments, MaxFragments)}

\* the comparison engine: texts of at most MaxTextLen characters
TextChars == {"a", "b", "A"}
Texts == SeqsUpTo(TextChars, MaxTextLen)

\* texts long enough for SequenceMatcher to drop popular characters
LongTexts ==
    {Rep("a", AutoJunkMinLen),
     Rep("a", AutoJunkMinLen - 1) \o <<"b">>,
     <<"B">> \o Rep("a", AutoJunkMinLen)}

Urls == {UrlX, UrlXSlash, UrlY}
UrlLists == SeqsUpTo(Urls, MaxUrls)

CommentTexts == {<<"a", "a", "a">>, <<"a", "B">>, <<"b">>, <<"A", "b", "a", "b">>}
CommentLists == SeqsUpTo(CommentTexts, MaxComments)
EmlTexts == SeqsUpTo({"a", "b"}, MaxEmlLen)

\* PDFs: at most MaxPages pages of at most MaxAnnots annotations
PageTexts ==
    {<<"a", "B">>,
     <<"s", "e", "e", " ">> \o UrlX \o <<"\n", "b">>,
     <<"<", "b", ">", "a", " ">>}
AnnotInfos ==
    {[content |-> <<"a", "B">>], [content |-> <<" ", "b", "\n">>], [content |-> <<" ", " ">>],
     [content |-> <<>>], [title |-> <<"t">>]}
PdfPagesOf(maxAnnots) == [text : PageTexts, annots : SeqsUpTo(AnnotInfos, maxAnnots)]
PdfFiles == {Pdf(pages) : pages \in SeqsUpTo(PdfPagesOf(MaxAnnots), MaxPages)}

\* e-mails: walks of at most MaxParts parts
NoOcr == [ok |-> TRUE, text |-> <<>>]
PartPlain ==
    [maintype |-> "text", subtype |-> "plain",
     content |-> <<"a", " ">> \o UrlX \o <<" ", "b">>, ocr |-> NoOcr]
PartHtml ==
    [maintype |-> "text", subtype |-> "html",
     content |-> <<"<", "b", ">", "B", "<", "/", "b", ">">>, ocr |-> NoOcr]
PartImage ==
    [maintype |-> "image", subtype |-> "png", content |-> <<>>,
     ocr |-> [ok |-> TRUE, text |-> <<"a", "\n">>]]
PartImageB ==
    [maintype |-> "image", subtype |-> "jpeg", content |-> <<>>,
     ocr |-> [ok |-> TRUE, text |-> <<"b">>]]
PartImageBroken ==
    [maintype |-> "image", subtype |-> "gif", content |-> <<>>,
     ocr |-> [ok |-> FALSE, text |-> <<>>]]
PartAttachment ==
    [maintype |-> "application", subtype |-> "pdf", content |-> <<>>, ocr |-> NoOcr]
PartMultipart ==
    [maintype |-> "multipart", subtype |-> "mixed", content |-> <<>>, ocr |-> NoOcr]
Parts == {PartPlain, PartHtml, PartImage, PartImageB, PartImageBroken, PartAttachment,
          PartMultipart}
EmlFiles == {Eml(parts) : parts \in SeqsUpTo(Parts, MaxParts)}

\* the handler: what may be in the two upload slots
PipePages ==
    {[text |-> <<"a", "B">>, annots |-> <<[content |-> <<"a", " ">>]>>],
     [text |-> <<"b", " ">> \o UrlX, annots |-> <<[title |-> <<"t">>], [content |-> <<"b">>]>>],
     [text |-> <<"<", "b", ">">>, annots |-> <<>>]}
PipePdfFiles == {NoPdf} \cup {Pdf(pages) : pages \in SeqsUpTo(PipePages, MaxPipePages)}
PipeParts == {PartPlain, PartHtml, PartImage, PartImageBroken, PartMultipart}
PipeEmlFiles == {NoEml} \cup {Eml(parts) : parts \in SeqsUpTo(PipeParts, MaxPipeParts)}

-----------------------------------------------------------------------------
(* Specifications *)

NothingCleaned == raw_text = <<>> /\ cleaned = <<>>
NothingUploaded == pdf_file = NoPdf /\ eml_file = NoEml /\ openai_key = FALSE
NothingExtracted ==
    /\ pdf_text = <<>> /\ pdf_comments = <<>> /\ pdf_urls = <<>>
    /\ eml_text = <<>> /\ eml_images_text = <<>> /\ eml_urls = <<>>
    /\ combined_eml_text = <<>>
NothingCompared ==
    /\ match_score = NoScore /\ differences = <<>> /\ comment_results = <<>>
    /\ semantic_result = NoSemanticResult /\ rendered = <<>>

\* the page as the script leaves it before the button is clicked
Init ==
    /\ pc = "start"
    /\ NothingCleaned
    /\ pdf_file \in PipePdfFiles
    /\ eml_file \in PipeEmlFiles
    /\ openai_key \in BOOLEAN
    /\ NothingExtracted
    /\ NothingCompared

Next == Submit \/ JudgeReturns

Spec == Init /\ [][Next]_vars

\* the handler leaves its first statement: it ends, raises, or reaches the OpenAI call
HandlerRuns ==
    /\ pc = "start"
    /\ pc' \in {"warned", "raised:extract_eml_content", "judge", "done"}

\* The handler is one run of the script: once started it runs on, up to the call
\* it waits in.  Nothing makes the OpenAI call come back.
FairSpec == Spec /\ WF_pc(HandlerRuns)

InitClean ==
    /\ pc = "start"
    /\ raw_text \in CleanInputs
    /\ cleaned = <<>>
    /\ NothingUploaded /\ NothingExtracted /\ NothingCompared

NextClean == CleanText

SpecClean == InitClean /\ [][NextClean]_vars

InitPdf ==
    /\ pc = "start"
    /\ NothingCleaned
    /\ pdf_file \in PdfFiles
    /\ eml_file = NoEml /\ openai_key = FALSE
    /\ NothingExtracted /\ NothingCompared

NextPdf == ExtractPdf

SpecPdf == InitPdf /\ [][NextPdf]_vars

InitEml ==
    /\ pc = "start"
    /\ NothingCleaned
    /\ eml_file \in EmlFiles
    /\ pdf_file = NoPdf /\ openai_key = FALSE
    /\ NothingExtracted /\ NothingCompared

NextEml == ExtractEml

SpecEml == InitEml /\ [][NextEml]_vars

\* the arguments of the comparison engine: texts, with or without URLs; URL
\* lists; comments against e-mail texts
CompareInputs ==
    \/ /\ \E t \in (Texts \X Texts) \cup (LongTexts \X LongTexts) :
             pdf_text = t[1] /\ combined_eml_text = t[2]
       /\ \E u \in {<<<<>>, <<>>>>, <<<<UrlX, UrlY>>, <<UrlXSlash>>>>} :
             pdf_urls = u[1] /\ eml_urls = u[2]
       /\ pdf_comments = <<>>
    \/ /\ pdf_text = <<"a">> /\ combined_eml_text = <<"b">>
       /\ pdf_urls \in UrlLists /\ eml_urls \in UrlLists
       /\ pdf_comments = <<>>
    \/ /\ pdf_text = <<>>
       /\ combined_eml_text \in EmlTexts
       /\ pdf_urls = <<>> /\ eml_urls = <<>>
       /\ pdf_comments \in CommentLists

InitCompare ==
    /\ pc = "start"
    /\ NothingCleaned /\ NothingUploaded
    /\ CompareInputs
    /\ eml_text = <<>> /\ eml_images_text = <<>>
    /\ NothingCompared

NextCompare == Compare

SpecCompare == InitCompare /\ [][NextCompare]_vars

-----------------------------------------------------------------------------
(* Properties *)

IsUrlEntry(e) == e.Type = "URL"
IsTextEntry(e) == e.Type = "Text"
NotEqualOpcode(op) == op[1] # "equal"
Extracted(entries) == [k \in 1..Len(entries) |-> entries[k].Extracted]

\* C1: comparing a text with itself, with no URLs on either side and no comments,
\* gives a score of exactly 100 and no diff entry at all.
SelfComparisonIsPerfect ==
    (/\ pc = "done"
     /\ pdf_text = combined_eml_text
     /\ pdf_urls = <<>> /\ eml_urls = <<>> /\ pdf_comments = <<>>)
    => /\ RatEq(match_score, Rat(100, 1))
       /\ differences = <<>>

\* a text long enough for popular characters to be dropped, mixed in case, was
\* compared with itself
SelfComparisonDone ==
    /\ pc = "done"
    /\ pdf_text = combined_eml_text
    /\ Len(pdf_text) > AutoJunkMinLen
    /\ Lower(pdf_text) # pdf_text
    /\ pdf_urls = <<>> /\ eml_urls = <<>>
    /\ RatEq(match_score, Rat(100, 1))

\* C2: the URL entries are, in the order of the PDF's URL list, exactly the PDF
\* URLs that equal no e-mail URL character for character, each marked as missing.
UrlEntriesAreExactlyTheMissingUrls ==
    pc = "done" =>
        LET entries == SelectSeq(differences, IsUrlEntry)
            inEmail(u) == \E k \in 1..Len(eml_urls) :
                              /\ Len(eml_urls[k]) = Len(u)
                              /\ \A c \in 1..Len(u) : eml_urls[k][c] = u[c]
            missing == SelectSeq(pdf_urls, LAMBDA u : ~inEmail(u))
        IN  /\ Extracted(entries) = missing
            /\ \A k \in 1..Len(entries) :
                  entries[k].Status = "Missing in Email" /\ entries[k].Source = "PDF"

\* a PDF URL that differs from an e-mail URL by a trailing slash only was reported,
\* and another one, present in the e-mail, was not
TrailingSlashReported ==
    /\ pc = "done"
    /\ pdf_urls = <<UrlY, UrlX>>
    /\ eml_urls = <<UrlXSlash, UrlY>>
    /\ Extracted(SelectSeq(differences, IsUrlEntry)) = <<UrlX>>

\* C3: there is one verdict per comment, in the comments' order, with the ratio of
\* the lowercased comment against the lowercased e-mail text; implemented is true
\* exactly when the ratio is strictly greater than 0.6, so false at exactly 0.6.
VerdictsFollowTheThreshold ==
    pc = "done" =>
        /\ Len(comment_results) = Len(pdf_comments)
        /\ \A k \in 1..Len(pdf_comments) :
              LET verdict == comment_results[k]
              IN  /\ verdict[1] = pdf_comments[k]
                  /\ verdict[3] = ratio(Lower(pdf_comments[k]), Lower(combined_eml_text))
                  /\ verdict[2] <=> (10 * verdict[3].num > 6 * verdict[3].den)
                  /\ (10 * verdict[3].num = 6 * verdict[3].den) => ~verdict[2]

\* two comments were judged: one at exactly 0.6, not implemented, and after it
\* one above 0.6, implemented
VerdictAtTheThreshold ==
    /\ pc = "done"
    /\ Len(comment_results) = 2
    /\ 10 * comment_results[1][3].num = 6 * comment_results[1][3].den
    /\ ~comment_results[1][2]
    /\ comment_results[2][2]
    /\ comment_results[2][3].num < comment_results[2][3].den

\* C4: when OCR fails on one image part, extract_eml_content does not raise and
\* returns what it returns for the e-mail without that part.
OcrFailureIsNotFatal ==
    LET parts == eml_file.parts
        failing == {k \in 1..Len(parts) : OcrFails(parts[k])}
        k == CHOOSE k \in failing : TRUE
        others == SubSeq(parts, 1, k - 1) \o SubSeq(parts, k + 1, Len(parts))
        expected == extract_eml_content(Eml(others))
    IN  (pc # "start" /\ Cardinality(failing) = 1)
        => /\ pc = "done"
           /\ eml_text = expected.text_content
           /\ eml_images_text = expected.images_text
           /\ eml_urls = expected.urls

\* C5: whatever the OpenAI call does, semantic_similarity raises nothing: the run
\* ends with a string shown in the text area and the remaining results rendered.
SemanticFailureIsContained ==
    /\ pc # "raised:semantic_similarity"
    /\ (pc = "done" /\ openai_key)
       => /\ semantic_result.type = "str"
          /\ \E k \in 1..Len(rendered) :
                rendered[k] = Widget("text_area", "GPT-4 Comparison Result", 0)
          /\ rendered[Len(rendered)] = Widget("text_area", "Extracted Email Text", 0)

\* the call failed and the run ended with the error string in the text area
SemanticErrorShown ==
    /\ pc = "done"
    /\ semantic_result.type = "str"
    /\ semantic_result.text = <<"OpenAI API Error: ", "quota">>
    /\ \E k \in 1..Len(rendered) : rendered[k].widget \in {"dataframe", "success"}

\* the structured differences and the comment verdicts are on the page
ResultsDelivered ==
    /\ \E k \in 1..Len(rendered) : rendered[k].widget \in {"dataframe", "success"}
    /\ \E k \in 1..Len(rendered) :
          rendered[k] = Widget("subheader", "Detailed Comment Check", 0)

ExtractionsSucceed ==
    /\ pdf_file.present /\ eml_file.present
    /\ ~extract_eml_content(eml_file).raised

\* C6: in a run whose extractions succeed, the structured differences and the
\* comment verdicts are eventually on the page, whether the OpenAI call comes back
\* or not.
ResultsNeverWaitForTheJudge == ExtractionsSucceed ~> ResultsDelivered

\* C7: clean_text applied to its own result changes nothing.
CleanTextIsIdempotent ==
    \A k \in 2..Len(cleaned) : cleaned[k] = cleaned[1]

\* a string with a tag and a URL was cleaned, something was left of it, and it
\* was cleaned again
CleanedTwice ==
    /\ Len(cleaned) >= 2
    /\ \E i \in 1..Len(raw_text) : TagEnd(raw_text, i) # 0
    /\ LET untagged == SubTags(raw_text, 1)
       IN  \E i \in 1..Len(untagged) : UrlEnd(untagged, i) # 0
    /\ cleaned[1] # <<>>
    /\ Len(cleaned[1]) < Len(raw_text)

RECURSIVE AllAnnots(_)
AllAnnots(pages) ==
    IF pages = <<>> THEN <<>> ELSE Head(pages).annots \o AllAnnots(Tail(pages))

\* C8: the comments are the trimmed contents of the annotations whose content is
\* not empty once trimmed, in the order of the pages and of each page's
\* annotations; an absent, empty or blank content gives no comment.
CommentsAreTheNonBlankContents ==
    pc = "done" =>
        LET infos == AllAnnots(pdf_file.pages)
            nonBlank(info) == "content" \in DOMAIN info /\ Strip(info["content"]) # <<>>
            kept == SelectSeq(infos, nonBlank)
        IN  pdf_comments = [k \in 1..Len(kept) |-> Strip(kept[k]["content"])]

\* C9: the score is 100 times the ratio of the lowercased PDF text against the
\* lowercased eml_text + " " + eml_images_text, and lies between 0 and 100.
ScoreIsHundredTimesTheRatio ==
    pc \in {"judge", "done"} =>
        LET r == ratio(Lower(pdf_text), Lower(eml_text \o <<" ">> \o eml_images_text))
        IN  /\ RatEq(match_score, Rat(100 * r.num, r.den))
            /\ match_score.den > 0
            /\ 0 <= match_score.num
            /\ match_score.num <= 100 * match_score.den

\* a run came to its end with text in the e-mail, none in its images, and a score
\* strictly between 0 and 100
ScoredWithoutImageText ==
    /\ pc = "done"
    /\ eml_text # <<>> /\ eml_images_text = <<>> /\ pdf_text # <<>>
    /\ 0 < match_score.num
    /\ match_score.num < 100 * match_score.den

\* C10: the Text entries are one per opcode that is not 'equal', in the opcodes'
\* order, each with pdf_text[i1:i2] in its original case; they come before every
\* URL entry.
TextEntriesFollowTheOpcodes ==
    pc = "done" =>
        LET opcodes == SelectSeq(get_opcodes(Lower(pdf_text), Lower(combined_eml_text)),
                                 NotEqualOpcode)
            n == Len(opcodes)
        IN  /\ Len(differences) >= n
            /\ \A k \in 1..n :
                  differences[k] =
                      [Type |-> "Text", Source |-> "PDF",
                       Extracted |-> SubSeq(pdf_text, opcodes[k][2] + 1, opcodes[k][3]),
                       Status |-> "Not Found in Email"]
            /\ \A k \in (n + 1)..Len(differences) : differences[k].Type = "URL"

\* two spans of the PDF text were reported, one of them with a capital letter,
\* and URL entries follow them
TextEntriesBeforeUrlEntries ==
    /\ pc = "done"
    /\ Len(SelectSeq(differences, IsTextEntry)) = 2
    /\ \E k \in 1..2 : "A" \in Range(differences[k].Extracted)
    /\ Len(differences) > 2
    /\ differences[3].Type = "URL"

====
